---- MODULE Spec2Model ----
(***************************************************************************)
(* A model of the OKR extraction and reconciliation engine of              *)
(* extract_okr.py: indicator-shape collection, ordering and column         *)
(* filtering, fill-colour classification, table row extraction with        *)
(* fill-forward, the two metadata locators and the two range reconcilers,  *)
(* run in the order of the script's main block.                            *)
(*                                                                         *)
(* Python values are modelled as tagged pairs, <<"int", n>>, <<"str", s>>  *)
(* and <<"none", 0>>, so that a row, which the code keeps as one flat      *)
(* list of slide number, cell texts, colour, team and member count, is one *)
(* flat sequence here too.  A function that can raise returns a record     *)
(* [err, val]: err is "none" or the name of the Python exception.          *)
(* Positions are in EMU, as python-pptx gives them; the code's divisions   *)
(* by 360000 are modelled by comparing the scaled quantities exactly, and  *)
(* the sampled positions keep clear of the cases where float rounding      *)
(* would decide a comparison.                                              *)
(***************************************************************************)
EXTENDS Integers, Sequences, FiniteSets, TLC

VARIABLES pc, pres, dept_names, data, member_counts, error

vars == <<pc, pres, dept_names, data, member_counts, error>>

---------------------------------------------------------------------------
(* Bounds of the model and the grids the sampled documents are drawn from. *)

\* number of slides of the documents of the range specification
NSlides == 4
\* number of shapes of the slide of the geometry specification
MaxShapes == 4
\* vertical positions of the sampled shapes: 0 .. MaxTop steps of TopStep EMU
MaxTop == 2
\* data rows of the table of the row specification
MaxRows == 3
\* indicator shapes of the slide of the row specification
MaxColours == 4

\* EMU per centimetre, the divisor of get_top_dist and get_left_dist
EmuPerCm == 360000

\* the grid of the sampled vertical positions, 0.2 cm: no two sampled
\* shapes are exactly 0.3 cm apart
TopStep == EmuPerCm \div 5

---------------------------------------------------------------------------
(* Python values and results.                                              *)

PyInt(n) == <<"int", n>>
PyStr(s) == <<"str", s>>
PyNone == <<"none", 0>>

Ok(v) == [err |-> "none", val |-> v]
Raise(e) == [err |-> e, val |-> <<>>]

\* lst[i] with Python's 0-based index
At(lst, i) == lst[i + 1]

\* lst after lst.pop(i), i 0-based
Pop(lst, i) == [k \in 1..(Len(lst) - 1) |-> IF k <= i THEN lst[k] ELSE lst[k + 1]]

SetMin(S) == CHOOSE x \in S : \A y \in S : x <= y
SetMax(S) == CHOOSE x \in S : \A y \in S : x >= y

RECURSIVE SeqSum(_)
SeqSum(s) == IF s = <<>> THEN 0 ELSE Head(s) + SeqSum(Tail(s))

---------------------------------------------------------------------------
(* Shapes.  One record type for every shape of a slide: an indicator       *)
(* (auto shape with a fill), a text box, or the frame of a table.          *)

NoFill == [type |-> 0, rgb |-> <<0, 0, 0>>, theme_color |-> 0]
RgbFill(rgb) == [type |-> 1, rgb |-> rgb, theme_color |-> 0]
ThemeFill(n) == [type |-> 2, rgb |-> <<0, 0, 0>>, theme_color |-> n]

Indicator(id, top, left, fill) ==
    [id |-> id, shape_type |-> "AUTO_SHAPE", top |-> top, left |-> left,
     fill |-> fill, has_text_frame |-> FALSE, text |-> "",
     has_table |-> FALSE, rows |-> <<>>]

TextBox(id, text) ==
    [id |-> id, shape_type |-> "TEXT_BOX", top |-> 0, left |-> 0,
     fill |-> NoFill, has_text_frame |-> TRUE, text |-> text,
     has_table |-> FALSE, rows |-> <<>>]

\* rows[1] is the header row; every row is the sequence of its cells' texts
TableFrame(id, rows) ==
    [id |-> id, shape_type |-> "TABLE", top |-> 0, left |-> 0,
     fill |-> NoFill, has_text_frame |-> FALSE, text |-> "",
     has_table |-> TRUE, rows |-> rows]

Slide(hidden, shapes) == [hidden |-> hidden, shapes |-> shapes]

---------------------------------------------------------------------------
(* Colour classifier.                                                      *)

green == <<147, 196, 125>>
yellow == <<255, 229, 153>>
red == <<213, 97, 97>>

\* math.dist squared: the square root is strictly increasing, and two
\* distinct squared distances below 2^18 differ in their roots by far more
\* than a float's rounding, so min and == decide as on the roots
dist2(p, q) ==
    (p[1] - q[1]) * (p[1] - q[1]) + (p[2] - q[2]) * (p[2] - q[2])
        + (p[3] - q[3]) * (p[3] - q[3])

\* a variant of rgb_to_colour_name that gives a tie to the later reference
rgb_to_colour_name_first_wins(rgb) ==
    LET dists == <<dist2(green, rgb), dist2(yellow, rgb), dist2(red, rgb)>>
    IN  IF dists[1] < dists[2] /\ dists[1] < dists[3] THEN "Green"
        ELSE IF dists[2] < dists[3] THEN "Yellow"
        ELSE "Red"

rgb_to_colour_name(rgb) ==
    LET dists == <<dist2(green, rgb), dist2(yellow, rgb), dist2(red, rgb)>>
        closest == SetMin({dists[1], dists[2], dists[3]})
    IN  IF closest = dists[1] THEN "Green"
        ELSE IF closest = dists[2] THEN "Yellow"
        ELSE "Red"

---------------------------------------------------------------------------
(* Geometry utilities.                                                     *)

\* shape.top / 360000, kept as its numerator: in EMU
get_top_dist(shape) == shape.top

\* shape.left / 360000, kept as its numerator: in EMU
get_left_dist(shape) == shape.left

\* shape_i_dist - 0.3 <= shape_dist <= shape_i_dist + 0.3, times 3600000
InBand(shape_dist, shape_i_dist) ==
    /\ 10 * shape_i_dist - 3 * EmuPerCm <= 10 * shape_dist
    /\ 10 * shape_dist <= 10 * shape_i_dist + 3 * EmuPerCm

\* the first index (0-based) of a shape of shapes_lst within the band, or -1
is_overlapping(shape, shapes_lst) ==
    LET hits == {i \in 0..(Len(shapes_lst) - 1) :
                    InBand(get_top_dist(shape), get_top_dist(At(shapes_lst, i)))}
    IN  IF hits = {} THEN -1 ELSE SetMin(hits)

\* the loop of get_auto_shapes over shapes[k..], auto_shapes collected so far
RECURSIVE auto_shapes_loop(_, _, _)
auto_shapes_loop(shapes, k, auto_shapes) ==
    IF k > Len(shapes) THEN auto_shapes
    ELSE LET shape == shapes[k]
             i == is_overlapping(shape, auto_shapes)
         IN  IF shape.shape_type = "AUTO_SHAPE"
             THEN auto_shapes_loop(shapes, k + 1,
                      Append(IF i >= 0 THEN Pop(auto_shapes, i) ELSE auto_shapes,
                             shape))
             ELSE auto_shapes_loop(shapes, k + 1, auto_shapes)

get_auto_shapes(slide) == auto_shapes_loop(slide.shapes, 1, <<>>)

\* the dictionary d of sort_auto_shapes: a later shape replaces an earlier
\* one with the same key
top_dict(shapes_lst) ==
    [t \in {get_top_dist(shapes_lst[i]) : i \in 1..Len(shapes_lst)} |->
        shapes_lst[SetMax({i \in 1..Len(shapes_lst) :
                              get_top_dist(shapes_lst[i]) = t})]]

\* a variant of sorted_by_key that takes the largest key first
RECURSIVE sorted_by_key_desc(_, _)
sorted_by_key_desc(d, keys) ==
    IF keys = {} THEN <<>>
    ELSE LET largest == SetMax(keys)
         IN  <<d[largest]>> \o sorted_by_key_desc(d, keys \ {largest})

\* the first loop of sort_auto_shapes: repeatedly take the smallest key
RECURSIVE sorted_by_key(_, _)
sorted_by_key(d, keys) ==
    IF keys = {} THEN <<>>
    ELSE LET smallest == SetMin(keys)
         IN  <<d[smallest]>> \o sorted_by_key(d, keys \ {smallest})

\* avg_left_dist - 2 <= left_dist[i] <= avg_left_dist + 2 with
\* avg_left_dist = total / n, times 360000 * n
InColumn(left, total, n) ==
    /\ total - 2 * EmuPerCm * n <= left * n
    /\ left * n <= total + 2 * EmuPerCm * n

sort_auto_shapes(shapes_lst) ==
    LET d == top_dict(shapes_lst)
        sorted == sorted_by_key(d, DOMAIN d)
        left_dist == [i \in 1..Len(sorted) |-> get_left_dist(sorted[i])]
        total == SeqSum(left_dist)
    IN  IF Len(left_dist) = 0 THEN Raise("ZeroDivisionError")
        ELSE Ok(SelectSeq(sorted,
                    LAMBDA s : InColumn(get_left_dist(s), total, Len(left_dist))))

fill_colour(shape) ==
    IF shape.fill.type = 1 THEN PyStr(rgb_to_colour_name(shape.fill.rgb))
    ELSE IF shape.fill.type = 2
         THEN IF shape.fill.theme_color = 9 THEN PyStr("Green")
              ELSE IF shape.fill.theme_color = 10 THEN PyStr("Yellow")
              ELSE PyStr("Red")
    ELSE PyNone

get_shape_fill_colours(shapes_lst) ==
    LET autos == SelectSeq(shapes_lst, LAMBDA s : s.shape_type = "AUTO_SHAPE")
    IN  [i \in 1..Len(autos) |-> fill_colour(autos[i])]

get_progress_colours_from_slide(slide) ==
    LET shapes == get_auto_shapes(slide)
        sorted_shapes == sort_auto_shapes(shapes)
    IN  IF sorted_shapes.err # "none" THEN sorted_shapes
        ELSE Ok(get_shape_fill_colours(sorted_shapes.val))

---------------------------------------------------------------------------
(* Regular expressions, as the table of their results on the texts the     *)
(* sampled documents hold.                                                 *)

\* re.search(r"presented\s*by\s*", text.lower())
dept_slide_pattern(text) == text \in {"Presented by", "Presented by Finance Team"}

\* re.search(r".+team", text.lower())
team_name_pattern(text) ==
    text \in {"Marketing Team", "Sales Team", "Presented by Finance Team"}

\* re.match(r'total\s*members*:?\s*\D*\d+', text.lower())
members_pattern(text) == text \in {"Total Members: 25", "Total Members: 38"}

\* int(re.sub('[^0-9]', '', match.group().split(' ')[-1]))
total_mem(text) == IF text = "Total Members: 25" THEN 25 ELSE 38

OkrHeader == <<"OKRs", "Projects", "Owner", "Stakeholders", "Status", "Deadline">>

\* re.search(header_match, header_str, re.IGNORECASE) on the joined header
header_match(header) == header = OkrHeader

---------------------------------------------------------------------------
(* Table recogniser and row extractor.                                     *)

is_okr_table(t) ==
    LET header == t.rows[1]
    IN  IF Len(header) = 6 THEN header_match(header) ELSE FALSE

is_slide_hidden(s) == s.hidden

\* a variant of cells_loop that fills an empty cell from prev_row[i]
RECURSIVE cells_loop_same_index(_, _, _, _)
cells_loop_same_index(cells, i, prev_row, r) ==
    IF i >= Len(cells) THEN Ok(r)
    ELSE IF At(cells, i) = ""
         THEN IF i < Len(prev_row)
              THEN cells_loop_same_index(cells, i + 1, prev_row,
                                         Append(r, At(prev_row, i)))
              ELSE Raise("IndexError")
         ELSE cells_loop_same_index(cells, i + 1, prev_row,
                                    Append(r, PyStr(At(cells, i))))

\* the loop over row.cells from index i (0-based), r built so far
RECURSIVE cells_loop(_, _, _, _)
cells_loop(cells, i, prev_row, r) ==
    IF i >= Len(cells) THEN Ok(r)
    ELSE IF At(cells, i) = ""
         THEN IF i + 1 < Len(prev_row)
              THEN cells_loop(cells, i + 1, prev_row, Append(r, At(prev_row, i + 1)))
              ELSE Raise("IndexError")
         ELSE cells_loop(cells, i + 1, prev_row, Append(r, PyStr(At(cells, i))))

\* the loop over shape.table.rows from row_num (1-based, the header is 1).
\* prev_row = r makes prev_row the very list the colour is then appended
\* to, so the next row sees the colour at the end of prev_row.
RECURSIVE rows_loop(_, _, _, _, _, _)
rows_loop(rows, row_num, prev_row, progress_colors, slide_num, lst) ==
    IF row_num > Len(rows) THEN Ok(lst)
    ELSE IF row_num = 1
         THEN rows_loop(rows, row_num + 1, prev_row, progress_colors, slide_num, lst)
    ELSE LET r == cells_loop(rows[row_num], 0, prev_row, <<PyInt(slide_num)>>)
         IN  IF r.err # "none" THEN r
             ELSE IF row_num - 2 >= Len(progress_colors) THEN Raise("IndexError")
             ELSE LET full == Append(r.val, At(progress_colors, row_num - 2))
                  IN  rows_loop(rows, row_num + 1, full, progress_colors,
                                slide_num, Append(lst, full))

\* the loop over slide.shapes from shapes[k]
RECURSIVE table_shapes_loop(_, _, _, _)
table_shapes_loop(slide, k, slide_num, lst) ==
    IF k > Len(slide.shapes) THEN Ok(lst)
    ELSE LET shape == slide.shapes[k]
         IN  IF shape.has_table /\ is_okr_table(shape)
             THEN LET progress_colors == get_progress_colours_from_slide(slide)
                      got == IF progress_colors.err # "none" THEN progress_colors
                             ELSE rows_loop(shape.rows, 1, <<>>,
                                            progress_colors.val, slide_num, lst)
                  IN  IF got.err # "none" THEN got
                      ELSE table_shapes_loop(slide, k + 1, slide_num, got.val)
             ELSE table_shapes_loop(slide, k + 1, slide_num, lst)

\* the loop over p.slides; slide_num is the number of the slide looked at
RECURSIVE table_slides_loop(_, _, _, _)
table_slides_loop(p, slide_num, ignore_hidden, lst) ==
    IF slide_num > Len(p) THEN Ok(lst)
    ELSE IF ignore_hidden /\ is_slide_hidden(p[slide_num])
         THEN table_slides_loop(p, slide_num + 1, ignore_hidden, lst)
    ELSE LET got == table_shapes_loop(p[slide_num], 1, slide_num, lst)
         IN  IF got.err # "none" THEN got
             ELSE table_slides_loop(p, slide_num + 1, ignore_hidden, got.val)

get_data_from_tables(p, ignore_hidden) == table_slides_loop(p, 1, ignore_hidden, <<>>)

---------------------------------------------------------------------------
(* Metadata locators.                                                      *)

texts_of(slide) ==
    LET framed == SelectSeq(slide.shapes, LAMBDA s : s.has_text_frame)
    IN  [i \in 1..Len(framed) |-> framed[i].text]

\* for every text of the slide matching the title pattern, every text of
\* the slide matching the team pattern
RECURSIVE dept_names_of_slide(_, _, _)
dept_names_of_slide(texts, k, slide_num) ==
    IF k > Len(texts) THEN <<>>
    ELSE LET teams == SelectSeq(texts, team_name_pattern)
             found == IF dept_slide_pattern(texts[k])
                      THEN [i \in 1..Len(teams) |-> <<teams[i], slide_num>>]
                      ELSE <<>>
         IN  found \o dept_names_of_slide(texts, k + 1, slide_num)

RECURSIVE dept_slides_loop(_, _, _)
dept_slides_loop(p, slide_num, ignore_hidden) ==
    IF slide_num > Len(p) THEN <<>>
    ELSE IF ignore_hidden /\ is_slide_hidden(p[slide_num])
         THEN dept_slides_loop(p, slide_num + 1, ignore_hidden)
    ELSE dept_names_of_slide(texts_of(p[slide_num]), 1, slide_num)
             \o dept_slides_loop(p, slide_num + 1, ignore_hidden)

get_department_names(p, ignore_hidden) == dept_slides_loop(p, 1, ignore_hidden)

RECURSIVE member_slides_loop(_, _, _)
member_slides_loop(p, slide_num, ignore_hidden) ==
    IF slide_num > Len(p) THEN <<>>
    ELSE IF ignore_hidden /\ is_slide_hidden(p[slide_num])
         THEN member_slides_loop(p, slide_num + 1, ignore_hidden)
    ELSE LET found == SelectSeq(texts_of(p[slide_num]), members_pattern)
         IN  [i \in 1..Len(found) |-> <<slide_num, total_mem(found[i])>>]
                 \o member_slides_loop(p, slide_num + 1, ignore_hidden)

get_member_count(p, ignore_hidden) == member_slides_loop(p, 1, ignore_hidden)

---------------------------------------------------------------------------
(* Range reconciler.                                                       *)

\* the loop over j (0-based) of add_dept_names for one row.  The chained
\* comparison a < b < c reads c only when a < b holds.
\* a variant of dept_loop whose scopes start on the declaration's own page
RECURSIVE dept_loop_inclusive(_, _, _)
dept_loop_inclusive(row, names, j) ==
    IF j >= Len(names) THEN Ok(row)
    ELSE IF j = Len(names) - 1 /\ At(names, j)[2] <= row[1][2]
         THEN dept_loop_inclusive(Append(row, PyStr(At(names, j)[1])), names, j + 1)
    ELSE IF At(names, j)[2] <= row[1][2]
         THEN IF j + 1 >= Len(names) THEN Raise("IndexError")
              ELSE IF row[1][2] < At(names, j + 1)[2]
                   THEN dept_loop_inclusive(Append(row, PyStr(At(names, j)[1])),
                                            names, j + 1)
                   ELSE dept_loop_inclusive(row, names, j + 1)
    ELSE dept_loop_inclusive(row, names, j + 1)

\* a variant of dept_loop that appends the name of the declaration after
\* the one whose scope holds the row
RECURSIVE dept_loop_next_name(_, _, _)
dept_loop_next_name(row, names, j) ==
    IF j >= Len(names) THEN Ok(row)
    ELSE IF j = Len(names) - 1 /\ At(names, j)[2] < row[1][2]
         THEN dept_loop_next_name(Append(row, PyStr(At(names, j)[1])), names, j + 1)
    ELSE IF At(names, j)[2] < row[1][2]
         THEN IF j + 1 >= Len(names) THEN Raise("IndexError")
              ELSE IF row[1][2] < At(names, j + 1)[2]
                   THEN dept_loop_next_name(Append(row, PyStr(At(names, j + 1)[1])),
                                            names, j + 1)
                   ELSE dept_loop_next_name(row, names, j + 1)
    ELSE dept_loop_next_name(row, names, j + 1)

RECURSIVE dept_loop(_, _, _)
dept_loop(row, names, j) ==
    IF j >= Len(names) THEN Ok(row)
    ELSE IF j = Len(names) - 1 /\ At(names, j)[2] < row[1][2]
         THEN dept_loop(Append(row, PyStr(At(names, j)[1])), names, j + 1)
    ELSE IF At(names, j)[2] < row[1][2]
         THEN IF j + 1 >= Len(names) THEN Raise("IndexError")
              ELSE IF row[1][2] < At(names, j + 1)[2]
                   THEN dept_loop(Append(row, PyStr(At(names, j)[1])), names, j + 1)
                   ELSE dept_loop(row, names, j + 1)
    ELSE dept_loop(row, names, j + 1)

\* the loop over the rows from row i (1-based)
RECURSIVE dept_rows_loop(_, _, _)
dept_rows_loop(okr_table_data, names, i) ==
    IF i > Len(okr_table_data) THEN Ok(okr_table_data)
    ELSE LET row == dept_loop(okr_table_data[i], names, 0)
         IN  IF row.err # "none" THEN row
             ELSE dept_rows_loop([okr_table_data EXCEPT ![i] = row.val], names, i + 1)

add_dept_names(okr_table_data, names) == dept_rows_loop(okr_table_data, names, 1)

\* a variant of member_loop that reads counts[j+1] before it compares
\* counts[j] with the row's page
RECURSIVE member_loop_eager(_, _, _)
member_loop_eager(row, counts, j) ==
    IF j >= Len(counts) THEN Ok(row)
    ELSE IF j = Len(counts) - 1 /\ At(counts, j)[1] < row[1][2]
         THEN member_loop_eager(Append(row, PyInt(At(counts, j)[2])), counts, j + 1)
    ELSE IF j + 1 >= Len(counts) THEN Raise("IndexError")
    ELSE IF At(counts, j)[1] < row[1][2] /\ row[1][2] < At(counts, j + 1)[1]
         THEN member_loop_eager(Append(row, PyInt(At(counts, j)[2])), counts, j + 1)
    ELSE member_loop_eager(row, counts, j + 1)

RECURSIVE member_loop(_, _, _)
member_loop(row, counts, j) ==
    IF j >= Len(counts) THEN Ok(row)
    ELSE IF j = Len(counts) - 1 /\ At(counts, j)[1] < row[1][2]
         THEN member_loop(Append(row, PyInt(At(counts, j)[2])), counts, j + 1)
    ELSE IF At(counts, j)[1] < row[1][2]
         THEN IF j + 1 >= Len(counts) THEN Raise("IndexError")
              ELSE IF row[1][2] < At(counts, j + 1)[1]
                   THEN member_loop(Append(row, PyInt(At(counts, j)[2])), counts, j + 1)
                   ELSE member_loop(row, counts, j + 1)
    ELSE member_loop(row, counts, j + 1)

RECURSIVE member_rows_loop(_, _, _)
member_rows_loop(okr_table_data, counts, i) ==
    IF i > Len(okr_table_data) THEN Ok(okr_table_data)
    ELSE LET row == member_loop(okr_table_data[i], counts, 0)
         IN  IF row.err # "none" THEN row
             ELSE member_rows_loop([okr_table_data EXCEPT ![i] = row.val], counts, i + 1)

add_member_count(okr_table_data, counts) == member_rows_loop(okr_table_data, counts, 1)

---------------------------------------------------------------------------
(* The main block: one action per call, in the script's order.             *)

ign_hidden == TRUE

\* dept_names = get_department_names(pres, ign_hidden)
GetDepartmentNames ==
    /\ pc = "start"
    /\ dept_names' = get_department_names(pres, ign_hidden)
    /\ pc' = "names"
    /\ UNCHANGED <<pres, data, member_counts, error>>

\* data = get_data_from_tables(pres, ign_hidden)
GetDataFromTables ==
    /\ pc = "names"
    /\ LET got == get_data_from_tables(pres, ign_hidden)
       IN  /\ data' = got.val
           /\ error' = got.err
           /\ pc' = IF got.err = "none" THEN "extracted" ELSE "raised"
    /\ UNCHANGED <<pres, dept_names, member_counts>>

\* data = add_dept_names(data, dept_names)
AddDeptNames ==
    /\ pc = "extracted"
    /\ LET got == add_dept_names(data, dept_names)
       IN  /\ data' = got.val
           /\ error' = got.err
           /\ pc' = IF got.err = "none" THEN "dept_added" ELSE "raised"
    /\ UNCHANGED <<pres, dept_names, member_counts>>

\* data = add_member_count(data, get_member_count(pres, ign_hidden))
AddMemberCount ==
    /\ pc = "dept_added"
    /\ member_counts' = get_member_count(pres, ign_hidden)
    /\ LET got == add_member_count(data, member_counts')
       IN  /\ data' = got.val
           /\ error' = got.err
           /\ pc' = IF got.err = "none" THEN "done" ELSE "raised"
    /\ UNCHANGED <<pres, dept_names>>

Next ==
    \/ GetDepartmentNames
    \/ GetDataFromTables
    \/ AddDeptNames
    \/ AddMemberCount

InitRun ==
    /\ pc = "start"
    /\ dept_names = <<>>
    /\ data = <<>>
    /\ member_counts = <<>>
    /\ error = "none"

---------------------------------------------------------------------------
(* Documents of NSlides slides for the range reconciler: every slide is a  *)
(* title slide, a member-count slide, a slide with a one-row OKR table, or *)
(* a mix of these.                                                         *)

FullRow(tag) == <<tag, "P", "O", "S", "T", "D">>

OneRowTable(id) == TableFrame(id, <<OkrHeader, FullRow("K")>>)

RangeSlides ==
    { Slide(FALSE, <<TextBox(1, "Presented by"),
                     TextBox(2, "Presented by Finance Team")>>),
      Slide(FALSE, <<TextBox(1, "Presented by Finance Team"),
                     TextBox(2, "Total Members: 25")>>),
      Slide(FALSE, <<TextBox(1, "Total Members: 25")>>),
      Slide(FALSE, <<TextBox(1, "Total Members: 38")>>),
      Slide(FALSE, <<OneRowTable(1), Indicator(2, 0, 0, RgbFill(green))>>),
      Slide(FALSE, <<TextBox(1, "Presented by"), TextBox(2, "Sales Team"),
                     OneRowTable(3), Indicator(4, 0, 0, ThemeFill(10))>>),
      Slide(TRUE, <<TextBox(1, "Presented by"), TextBox(2, "Marketing Team"),
                    TextBox(3, "Total Members: 38")>>) }

InitRange ==
    /\ pres \in [1..NSlides -> RangeSlides]
    /\ InitRun

SpecRange == InitRange /\ [][Next]_vars

---------------------------------------------------------------------------
(* One slide with a one-row OKR table and up to MaxShapes further shapes,  *)
(* each an indicator on the grid of positions or a text box: the inputs of *)
(* the geometry utilities.                                                 *)

ShapeKinds ==
    {<<"auto", t, l>> : t \in 0..MaxTop, l \in {0, 5}} \cup {<<"text", 0, 0>>}

\* the shape of kind k at place id of the slide: tops in steps of TopStep,
\* lefts in whole centimetres
MakeShape(id, k) ==
    IF k[1] = "auto"
    THEN Indicator(id, k[2] * TopStep, k[3] * EmuPerCm, RgbFill(green))
    ELSE TextBox(id, "Agenda")

InitShapes ==
    /\ \E n \in 0..MaxShapes : \E f \in [1..n -> ShapeKinds] :
          pres = <<Slide(FALSE, <<OneRowTable(0)>> \o [k \in 1..n |-> MakeShape(k, f[k])])>>
    /\ InitRun

SpecShapes == InitShapes /\ [][Next]_vars

---------------------------------------------------------------------------
(* One slide with an OKR table of up to MaxRows data rows, some of their   *)
(* cells empty, and up to MaxColours indicators in one column, drawn in    *)
(* the document from the bottom one to the top one: the inputs of the row  *)
(* extractor.                                                              *)

OddRow == <<"K1", "P1", "O1", "S1", "T1", "D1">>
EvenRow == <<"K2", "P2", "O2", "S2", "T2", "D2">>

\* the columns left empty in a row
EmptyColumns == {{}, 1..6, {1, 3, 5}, {1}, {6}}

\* data row r with the columns of e empty
MakeRow(r, e) ==
    [c \in 1..6 |-> IF c \in e THEN ""
                    ELSE IF r % 2 = 1 THEN OddRow[c] ELSE EvenRow[c]]

Fills == <<RgbFill(green), ThemeFill(10), RgbFill(red), NoFill, ThemeFill(9),
           ThemeFill(3)>>

\* m indicators 0.4 cm apart; the one at place k of the document is the
\* k-th from the bottom
Column(m) ==
    [k \in 1..m |-> Indicator(k, (m - k) * 2 * TopStep, 0, Fills[((k - 1) % 6) + 1])]

InitRows ==
    /\ \E n \in 0..MaxRows : \E e \in [1..n -> EmptyColumns] : \E m \in 0..MaxColours :
          pres = <<Slide(FALSE,
                     Column(m) \o <<TableFrame(m + 1,
                         <<OkrHeader>> \o [r \in 1..n |-> MakeRow(r, e[r])])>>)>>
    /\ InitRun

SpecRows == InitRows /\ [][Next]_vars

---------------------------------------------------------------------------
(* One slide with a one-row OKR table and one indicator with an explicit   *)
(* fill colour: the inputs of the colour classifier.                       *)

Channels == {0, 41, 97, 102, 125, 140, 147, 153, 163, 175, 196, 213, 217, 229,
             234, 253, 255}

InitColour ==
    /\ \E r \in Channels : \E g \in Channels : \E b \in Channels :
          pres = <<Slide(FALSE, <<OneRowTable(1),
                                  Indicator(2, 0, 0, RgbFill(<<r, g, b>>))>>)>>
    /\ InitRun

SpecColour == InitColour /\ [][Next]_vars

---------------------------------------------------------------------------
(* The end-to-end scenario: eight slides, slide 4 a title slide declaring  *)
(* "Marketing Team" that also holds an OKR table of two data rows with a   *)
(* Green indicator above a Red one, slide 8 declaring "Total Members: 25". *)
(* The other slides, the fills that read Green and Red, the second row's   *)
(* empty cells and the order of the indicators in the document vary.       *)

GreenFills == {RgbFill(green), RgbFill(<<41, 175, 140>>), ThemeFill(9)}
RedFills == {RgbFill(red), ThemeFill(5)}

OtherSlides == {Slide(FALSE, <<TextBox(1, "Agenda")>>),
                Slide(TRUE, <<TextBox(1, "Agenda")>>)}

ScenarioSlide4(gf, rf, e, green_first) ==
    LET upper == Indicator(IF green_first THEN 4 ELSE 5, 2 * TopStep, 0, gf)
        lower == Indicator(IF green_first THEN 5 ELSE 4, 5 * TopStep, 0, rf)
    IN  Slide(FALSE,
              <<TextBox(1, "Presented by"), TextBox(2, "Marketing Team"),
                TableFrame(3, <<OkrHeader, MakeRow(1, {}), MakeRow(2, e)>>)>>
              \o (IF green_first THEN <<upper, lower>> ELSE <<lower, upper>>))

InitE2E ==
    /\ \E o \in [{1, 2, 3, 5, 6, 7} -> OtherSlides] :
       \E gf \in GreenFills : \E rf \in RedFills :
       \E e \in {{}, {1, 3, 5}} : \E green_first \in BOOLEAN :
          pres = [n \in 1..8 |->
                    IF n = 4 THEN ScenarioSlide4(gf, rf, e, green_first)
                    ELSE IF n = 8 THEN Slide(FALSE, <<TextBox(1, "Total Members: 25")>>)
                    ELSE o[n]]
    /\ InitRun

SpecE2E == InitE2E /\ [][Next]_vars

---------------------------------------------------------------------------
(* Properties of the range reconciler, under SpecRange.                    *)

\* the slide number a row was extracted from
PageOf(row) == row[1][2]

DeptPages == [j \in 1..Len(dept_names) |-> dept_names[j][2]]
MemberPages == [j \in 1..Len(member_counts) |-> member_counts[j][1]]

\* declaration j (1-based) is the one whose scope holds page p
InScope(pages, j, p) ==
    /\ pages[j] < p
    /\ (j = Len(pages) \/ p < pages[j + 1])

\* no declaration has a page strictly below p
NoneBelow(pages, p) == \A j \in 1..Len(pages) : ~(pages[j] < p)

Ascending(pages) == \A j \in 1..(Len(pages) - 1) : pages[j] <= pages[j + 1]

\* what the department pass appended to row i: one field, or none
DeptFields(i) ==
    IF \E j \in 1..Len(dept_names) : InScope(DeptPages, j, PageOf(data[i]))
    THEN 1 ELSE 0

\* C1: with the declarations ordered by page, every row is given the value
\* of the declaration j whose page is below the row's page and whose
\* successor's page, if it has a successor, is above it: the department
\* name as the field appended by add_dept_names, the member count as the
\* field appended by add_member_count.
C1_RangeAssignment ==
    /\ Ascending(DeptPages) /\ Ascending(MemberPages)
    /\ pc \in {"dept_added", "done"} =>
          \A i \in 1..Len(data) : \A j \in 1..Len(dept_names) :
              InScope(DeptPages, j, PageOf(data[i])) =>
                  /\ Len(data[i]) >= 9
                  /\ data[i][9] = PyStr(dept_names[j][1])
    /\ pc = "dept_added" =>
          \A i \in 1..Len(data) : Len(data[i]) = 8 + DeptFields(i)
    /\ pc = "done" =>
          \A i \in 1..Len(data) : \A j \in 1..Len(member_counts) :
              InScope(MemberPages, j, PageOf(data[i])) =>
                  /\ Len(data[i]) = 9 + DeptFields(i)
                  /\ data[i][Len(data[i])] = PyInt(member_counts[j][2])

\* a row in the scope of a declaration that has a successor, a row in the
\* scope of the last of several declarations, and a row given a member count
C1_Witness ==
    /\ pc = "done"
    /\ Len(dept_names) >= 2
    /\ \E i \in 1..Len(data) : \E j \in 1..(Len(dept_names) - 1) :
          /\ InScope(DeptPages, j, PageOf(data[i]))
          /\ data[i][9] = PyStr(dept_names[j][1])
          /\ dept_names[j][1] # dept_names[j + 1][1]
    /\ \E i \in 1..Len(data) :
          /\ InScope(DeptPages, Len(dept_names), PageOf(data[i]))
          /\ data[i][9] = PyStr(dept_names[Len(dept_names)][1])
    /\ \E i \in 1..Len(data) : \E j \in 1..Len(member_counts) :
          /\ InScope(MemberPages, j, PageOf(data[i]))
          /\ data[i][10] = PyInt(member_counts[j][2])

\* C2: a row with no declaration on a page strictly below its own (the list
\* empty, or the row on or before the first declaration's page) goes through
\* both passes without an exception and is given no value by the pass.
C2_LeftBoundary ==
    /\ pc # "raised" /\ error = "none"
    /\ pc = "dept_added" =>
          \A i \in 1..Len(data) :
              NoneBelow(DeptPages, PageOf(data[i])) => Len(data[i]) = 8
    /\ pc = "done" =>
          \A i \in 1..Len(data) :
              NoneBelow(MemberPages, PageOf(data[i])) =>
                  /\ Len(data[i]) = 8 + DeptFields(i)
                  /\ \A k \in 9..Len(data[i]) : data[i][k][1] # "int"

\* a row on the page of the first department declaration and before the
\* first member count, both lists non-empty
C2_Witness ==
    /\ pc = "done"
    /\ dept_names # <<>> /\ member_counts # <<>>
    /\ \E i \in 1..Len(data) :
          /\ PageOf(data[i]) = DeptPages[1]
          /\ NoneBelow(MemberPages, PageOf(data[i]))
          /\ Len(data[i]) = 8

\* C10: after both passes every row has 10 fields, the team (or null) at
\* position 8 and the member count (or null) at position 9 (0-based).
C10_RowShape ==
    pc = "done" =>
        \A i \in 1..Len(data) :
            /\ Len(data[i]) = 10
            /\ data[i][9][1] \in {"str", "none"}
            /\ data[i][10][1] \in {"int", "none"}

---------------------------------------------------------------------------
(* Properties of the extraction, under SpecShapes, SpecRows, SpecColour    *)
(* and SpecE2E.                                                            *)

\* get_data_from_tables has run
Extracted == pc \notin {"start", "names"}

\* the slides get_data_from_tables reads the indicators of
TableSlides ==
    {n \in 1..Len(pres) :
        /\ ~(ign_hidden /\ pres[n].hidden)
        /\ \E k \in 1..Len(pres[n].shapes) :
              pres[n].shapes[k].has_table /\ is_okr_table(pres[n].shapes[k])}

\* the data rows of the first OKR table of slide n
DataRowsOf(n) ==
    LET k == SetMin({k \in 1..Len(pres[n].shapes) :
                        pres[n].shapes[k].has_table /\ is_okr_table(pres[n].shapes[k])})
    IN  Tail(pres[n].shapes[k].rows)

Abs(x) == IF x < 0 THEN -x ELSE x

\* two vertical offsets, in EMU, at most 0.3 cm apart
Within03(a, b) == 10 * Abs(a - b) <= 3 * 360000

\* C3: when the number of column-filtered indicator colours of a slide
\* differs from the number of data rows of its OKR table, extraction ends
\* with an error and emits no rows.
C3_MisalignmentSurfaced ==
    Extracted =>
        \A n \in TableSlides :
            Len(get_progress_colours_from_slide(pres[n]).val) # Len(DataRowsOf(n))
                => pc = "raised"

\* C6: sort_auto_shapes of an empty list is the empty list, and a slide
\* with an OKR table and no indicator shapes is extracted without a
\* ZeroDivisionError.
C6_EmptySortIsEmpty ==
    Extracted =>
        \A n \in TableSlides :
            get_auto_shapes(pres[n]) = <<>> =>
                /\ sort_auto_shapes(get_auto_shapes(pres[n])) = Ok(<<>>)
                /\ error # "ZeroDivisionError"

\* C8: the list get_auto_shapes returns holds only indicator shapes, no two
\* of them with vertical offsets within 0.3 cm of each other.
C8_NoOverlapKept ==
    Extracted =>
        \A n \in TableSlides :
            LET kept == get_auto_shapes(pres[n])
            IN  /\ \A a \in 1..Len(kept) : kept[a].shape_type = "AUTO_SHAPE"
                /\ \A a, b \in 1..Len(kept) :
                      a # b => ~Within03(kept[a].top, kept[b].top)

\* lst without its element at place k
Without(lst, k) == [i \in 1..(Len(lst) - 1) |-> IF i < k THEN lst[i] ELSE lst[i + 1]]

\* lst in ascending order of top, shapes of equal top in the order of lst
RECURSIVE StableByTop(_)
StableByTop(lst) ==
    IF lst = <<>> THEN <<>>
    ELSE LET least == SetMin({lst[i].top : i \in 1..Len(lst)})
             k == SetMin({i \in 1..Len(lst) : lst[i].top = least})
         IN  <<lst[k]>> \o StableByTop(Without(lst, k))

\* the shapes of lst at most 2 cm left or right of the mean left of lst
NearMeanLeft(lst) ==
    LET total == SeqSum([i \in 1..Len(lst) |-> lst[i].left])
    IN  SelectSeq(lst, LAMBDA sh :
            Abs(sh.left * Len(lst) - total) <= 2 * 360000 * Len(lst))

\* C9: on a non-empty list of collected shapes sort_auto_shapes returns
\* exactly the shapes within 2 cm of the mean left offset of all of them,
\* in ascending order of top, shapes of equal top in collection order.
C9_SortKeepsColumn ==
    Extracted =>
        \A n \in TableSlides :
            LET collected == get_auto_shapes(pres[n])
            IN  collected # <<>> =>
                    sort_auto_shapes(collected) = Ok(StableByTop(NearMeanLeft(collected)))

\* the fill colour of the indicator of the slide of SpecColour
TheRgb == pres[1].shapes[2].fill.rgb

References == << <<"Green", <<147, 196, 125>> >>, <<"Yellow", <<255, 229, 153>> >>,
                 <<"Red", <<213, 97, 97>> >> >>

SquaredDistance(p, q) ==
    (p[1] - q[1]) ^ 2 + (p[2] - q[2]) ^ 2 + (p[3] - q[3]) ^ 2

\* reference k is a nearest one, and no reference before it is as near
NearestFirst(k, rgb) ==
    /\ \A m \in 1..3 :
          SquaredDistance(References[k][2], rgb) <= SquaredDistance(References[m][2], rgb)
    /\ \A m \in 1..(k - 1) :
          SquaredDistance(References[k][2], rgb) < SquaredDistance(References[m][2], rgb)

\* C5: the colour emitted for an explicit fill triple is the label of the
\* nearest of the three references, the earlier of Green, Yellow, Red on a
\* tie; the references map to themselves, (253,217,102) to Yellow and
\* (41,175,140) to Green.
C5_NearestReference ==
    pc \in {"extracted", "dept_added", "done"} =>
        /\ Len(data) = 1
        /\ \E k \in 1..3 :
              /\ NearestFirst(k, TheRgb)
              /\ data[1][8] = PyStr(References[k][1])
        /\ \A k \in 1..3 :
              TheRgb = References[k][2] => data[1][8] = PyStr(References[k][1])
        /\ TheRgb = <<253, 217, 102>> => data[1][8] = PyStr("Yellow")
        /\ TheRgb = <<41, 175, 140>> => data[1][8] = PyStr("Green")

\* a triple as far from Yellow as from Red and farther from Green
C5_Witness ==
    /\ pc = "extracted"
    /\ TheRgb = <<234, 163, 125>>
    /\ SquaredDistance(References[2][2], TheRgb) = SquaredDistance(References[3][2], TheRgb)
    /\ data[1][8] = PyStr("Yellow")

\* C7: every data row after the first of a table is emitted with its
\* non-empty cells unchanged and each empty cell as the value emitted for
\* that column in the row before it, never that row's slide number or
\* colour.
C7_FillForward ==
    pc \in {"extracted", "dept_added", "done"} =>
        LET rows == DataRowsOf(1)
        IN  /\ Len(data) = Len(rows)
            /\ \A r \in 2..Len(rows) : \A c \in 1..6 :
                  /\ rows[r][c] # "" => data[r][c + 1] = PyStr(rows[r][c])
                  /\ rows[r][c] = "" =>
                        /\ data[r][c + 1] = data[r - 1][c + 1]
                        /\ data[r][c + 1] # data[r - 1][1]
                        /\ data[r][c + 1] # data[r - 1][8]

\* two rows in a row with an empty first cell take the first row's text,
\* beside a column that is never empty
C7_Witness ==
    /\ pc = "extracted"
    /\ Len(data) = 3
    /\ DataRowsOf(1)[2][1] = "" /\ DataRowsOf(1)[3][1] = ""
    /\ DataRowsOf(1)[2][2] # "" /\ DataRowsOf(1)[3][6] = ""
    /\ data[3][2] = PyStr("K1")
    /\ data[3][7] = data[2][7]

\* C4 as stated: the scenario yields two rows, both with the team
\* "Marketing Team" and 25 members, coloured Green then Red.
C4_ScenarioAsStated ==
    pc \in {"done", "raised"} =>
        /\ pc = "done"
        /\ Len(data) = 2
        /\ \A i \in 1..2 :
              /\ Len(data[i]) = 10
              /\ data[i][9] = PyStr("Marketing Team")
              /\ data[i][10] = PyInt(25)
        /\ data[1][8] = PyStr("Green")
        /\ data[2][8] = PyStr("Red")

\* C4 as amended: the scenario never raises and yields two rows of slide
\* 4, coloured Green then Red in table row order, and neither is given a
\* team or a member count: each keeps its 8 extracted fields, since
\* neither declaration is on a page strictly below 4.
C4_ScenarioAmended ==
    /\ pc # "raised"
    /\ pc \in {"extracted", "dept_added", "done"} =>
          /\ Len(data) = 2
          /\ \A i \in 1..2 : Len(data[i]) = 8 /\ data[i][1] = PyInt(4)
          /\ data[1][8] = PyStr("Green")
          /\ data[2][8] = PyStr("Red")

\* the scenario after the three steps, with both declarations found
C4_Witness ==
    /\ pc = "done"
    /\ dept_names = << <<"Marketing Team", 4>> >>
    /\ member_counts = << <<8, 25>> >>
    /\ Len(data) = 2
    /\ data[2][2] = PyStr("K1")

====
